---- MODULE Spec2Model ----
(***************************************************************************)
(* Model of ffsim/hamiltonians/molecular_hamiltonian.py: the               *)
(* MolecularHamiltonian record, its conversion to and from a               *)
(* FermionOperator, its orbital rotation and its diagonal.                 *)
(*                                                                         *)
(* Numbers.  A complex number is a record [re, im] of integers.  The code  *)
(* multiplies by 0.5 and by 2.0; every value that the model halves is      *)
(* drawn even, so that halving is exact, as it is in binary floating       *)
(* point.                                                                  *)
(***************************************************************************)
EXTENDS Integers, Sequences, FiniteSets, TLC

\* Largest number of spatial orbitals of a record or of an operator.
MaxNorb == 2
\* Largest number of terms of a FermionOperator handed to from_fermion_operator.
MaxTerms == 2
\* Coefficients of such an operator are 2*1 .. 2*MaxCoeff.
MaxCoeff == 2
\* Orbital rotations carry the phases i^0 .. i^MaxPhase.
MaxPhase == 1

VARIABLES
    pc,               \* position of the call in progress
    self,             \* the MolecularHamiltonian a method is called on
    op,               \* the FermionOperator: a function from terms to coefficients
    pending,          \* terms of op the loop of from_fermion_operator has not reached
    norb,             \* from_fermion_operator: local norb
    constant,         \* from_fermion_operator: local constant
    one_body_tensor,  \* from_fermion_operator: local one_body_tensor
    two_body_tensor,  \* from_fermion_operator: local two_body_tensor
    seen_2b,          \* from_fermion_operator: local seen_2b
    raised,           \* the exception raised by the call, or NoException
    ret,              \* the record a call returned, or NoRecord
    diag,             \* the vector _diag_ returned, or NoDiag
    args,             \* the other arguments of the calls (rotations, nelec)
    held              \* the records earlier calls returned, kept by the caller

vars == <<pc, self, op, pending, norb, constant, one_body_tensor,
          two_body_tensor, seen_2b, raised, ret, diag, args, held>>

----------------------------------------------------------------------------
(* Complex arithmetic (Python complex / numpy complex128).                 *)

Cx(re, im) == [re |-> re, im |-> im]
CZero == Cx(0, 0)
CAdd(x, y) == Cx(x.re + y.re, x.im + y.im)
CMul(x, y) == Cx(x.re * y.re - x.im * y.im, x.re * y.im + x.im * y.re)
Conj(x) == Cx(x.re, 0 - x.im)
\* 0.5 * x
Half(x) == Cx(x.re \div 2, x.im \div 2)
\* 2.0 * x
Twice(x) == Cx(2 * x.re, 2 * x.im)

RECURSIVE CSum(_, _)
\* sum of f[i] over the finite set S
CSum(f, S) ==
    IF S = {} THEN CZero
    ELSE LET i == CHOOSE j \in S : TRUE IN CAdd(f[i], CSum(f, S \ {i}))

RECURSIVE ISum(_, _)
\* integer sum of f[i] over the finite set S
ISum(f, S) ==
    IF S = {} THEN 0
    ELSE LET i == CHOOSE j \in S : TRUE IN f[i] + ISum(f, S \ {i})

----------------------------------------------------------------------------
(* numpy arrays: the element type, the extent n of every axis, the data.   *)

Orbs(n) == 0 .. (n - 1)
Idx2(n) == Orbs(n) \X Orbs(n)
Idx4(n) == Orbs(n) \X Orbs(n) \X Orbs(n) \X Orbs(n)

Array(dtype, n, data) == [dtype |-> dtype, n |-> n, data |-> data]
\* np.zeros((norb, norb), dtype=complex)
Zeros2(n) == Array("complex128", n, [i \in Idx2(n) |-> CZero])
\* np.zeros((norb, norb, norb, norb), dtype=complex)
Zeros4(n) == Array("complex128", n, [i \in Idx4(n) |-> CZero])
\* np.iscomplexobj: a test of the element type, not of the values
iscomplexobj(a) == a.dtype = "complex128"

\* the dataclass MolecularHamiltonian
MolecularHamiltonian(one_body, two_body, const) ==
    [one_body_tensor |-> one_body, two_body_tensor |-> two_body, constant |-> const]
\* property norb
Norb(h) == h.one_body_tensor.n

NoRecord == [none |-> "record"]
NoException == [none |-> "exception"]
NoDiag == [none |-> "diag"]
NoOp == [none |-> "op"]
NoArgs == [none |-> "args"]

----------------------------------------------------------------------------
(* ffsim.operators: an action is (action, spin, orb); a term is a tuple of *)
(* actions; a FermionOperator maps terms to complex coefficients.          *)

cre_a(orb) == <<TRUE, FALSE, orb>>
cre_b(orb) == <<TRUE, TRUE, orb>>
des_a(orb) == <<FALSE, FALSE, orb>>
des_b(orb) == <<FALSE, TRUE, orb>>

Exception(type, kind, term) == [type |-> type, kind |-> kind, term |-> term]

----------------------------------------------------------------------------
(* from_fermion_operator                                                   *)

\* the orbitals named by the actions of the terms of op
OrbitalsOf(o) == UNION {{term[i][3] : i \in DOMAIN term} : term \in DOMAIN o}

RECURSIVE SetMax(_)
SetMax(S) ==
    LET x == CHOOSE y \in S : TRUE
    IN IF S = {x} THEN x
       ELSE LET m == SetMax(S \ {x}) IN IF x > m THEN x ELSE m

\* ExtractNorb with max(..., default=-1): an operator without actions has norb 0
ExtractNorbDefault(o) ==
    IF OrbitalsOf(o) = {}
    THEN [ok |-> TRUE, norb |-> 0]
    ELSE [ok |-> TRUE, norb |-> 1 + SetMax(OrbitalsOf(o))]

\* norb = 1 + max(orb for term in op for _, _, orb in term); max() of an empty
\* sequence raises ValueError
ExtractNorb(o) ==
    IF OrbitalsOf(o) = {}
    THEN [ok |-> FALSE, raised |-> Exception("ValueError", "max_empty", <<>>)]
    ELSE [ok |-> TRUE, norb |-> 1 + SetMax(OrbitalsOf(o))]

\* valid_1b = [(cre_a(p), des_a(q)), (cre_b(p), des_b(q))]
valid_1b(p, q) == {<<cre_a(p), des_a(q)>>, <<cre_b(p), des_b(q)>>}

\* valid_2b that tests the create/annihilate order and not the spins
valid_2b_any_spin(p, r, s, q) ==
    {<<<<TRUE, s1, p>>, <<TRUE, s2, r>>, <<FALSE, s3, s>>, <<FALSE, s4, q>>>> :
        s1 \in BOOLEAN, s2 \in BOOLEAN, s3 \in BOOLEAN, s4 \in BOOLEAN}

\* valid_2b, built from the orbitals of the term itself
valid_2b(p, r, s, q) ==
    {<<cre_a(p), cre_a(r), des_a(s), des_a(q)>>,
     <<cre_a(p), cre_b(r), des_b(s), des_a(q)>>,
     <<cre_b(p), cre_a(r), des_a(s), des_b(q)>>,
     <<cre_b(p), cre_b(r), des_b(s), des_b(q)>>}

\* Equivalents without the exchange of the pairs (p,q) and (r,s)
EquivalentsNoExchange(p, q, r, s) ==
    <<<<p, q, r, s>>, <<q, p, r, s>>,
      <<p, q, s, r>>, <<q, p, s, r>>>>

\* (p,q,r,s) and its 7 symmetric equivalents
Equivalents(p, q, r, s) ==
    <<<<p, q, r, s>>, <<q, p, r, s>>,
      <<p, q, s, r>>, <<q, p, s, r>>,
      <<r, s, p, q>>, <<s, r, p, q>>,
      <<r, s, q, p>>, <<s, r, q, p>>>>

RECURSIVE Fill(_, _, _, _)
\* for a, b, c, d in idxs[j..]: data[a, b, c, d] = h
Fill(data, idxs, j, h) ==
    IF j > Len(idxs) THEN data
    ELSE Fill([data EXCEPT ![idxs[j]] = h], idxs, j + 1, h)

\* the locals of from_fermion_operator that its loop reads and writes
Locals(c, one_body, two_body, seen, exc) ==
    [constant |-> c, one_body_tensor |-> one_body, two_body_tensor |-> two_body,
     seen_2b |-> seen, raised |-> exc]

\* len(term) == 0
ConstantTerm(st, term, coeff) ==
    IF coeff.im # 0
    THEN [st EXCEPT !.raised = Exception("ValueError", "constant", term)]
    ELSE [st EXCEPT !.constant = coeff.re]

\* len(term) == 2
OneBodyTerm(st, term, coeff) ==
    LET p == term[1][3]
        q == term[2][3]
    IN IF term \in valid_1b(p, q)
       THEN [st EXCEPT !.one_body_tensor.data[<<p, q>>] = CAdd(@, Half(coeff))]
       ELSE [st EXCEPT !.raised = Exception("ValueError", "one_body", term)]

\* len(term) == 4; seen_2b is read and never added to
TwoBodyTerm(st, term, coeff) ==
    LET p == term[1][3]
        r == term[2][3]
        s == term[3][3]
        q == term[4][3]
        key == <<p, q, r, s>>
        h_pqrs == Twice(coeff)
    IN IF term \notin valid_2b(p, r, s, q)
       THEN [st EXCEPT !.raised = Exception("ValueError", "two_body", term)]
       ELSE IF key \notin st.seen_2b
       THEN [st EXCEPT !.two_body_tensor.data =
                Fill(@, Equivalents(p, q, r, s), 1, h_pqrs)]
       ELSE st

\* OtherTerm that skips the term instead of raising
OtherTermSkipped(st, term, coeff) == st

\* any other length
OtherTerm(st, term, coeff) ==
    [st EXCEPT !.raised = Exception("ValueError", "length", term)]

\* the body of "for term, coeff in op.items()"
LoopBody(st, term, coeff) ==
    IF Len(term) = 0 THEN ConstantTerm(st, term, coeff)
    ELSE IF Len(term) = 2 THEN OneBodyTerm(st, term, coeff)
    ELSE IF Len(term) = 4 THEN TwoBodyTerm(st, term, coeff)
    ELSE OtherTerm(st, term, coeff)

\* ReturnRecord that hands back real arrays (the real parts of the tensors)
ReturnRecordReal(one_body, two_body, c) ==
    MolecularHamiltonian([one_body EXCEPT !.dtype = "float64"],
                         [two_body EXCEPT !.dtype = "float64"], c)

\* the record the call returns
ReturnRecord(one_body, two_body, c) == MolecularHamiltonian(one_body, two_body, c)

NoValue == [none |-> "value"]

\* norb and the initial values of the locals
FromFermionOperatorStart ==
    /\ pc = "call_from_fermion_operator"
    /\ LET e == ExtractNorb(op)
       IN IF e.ok
          THEN /\ norb' = e.norb
               /\ constant' = 0
               /\ one_body_tensor' = Zeros2(e.norb)
               /\ two_body_tensor' = Zeros4(e.norb)
               /\ seen_2b' = {}
               /\ pending' = DOMAIN op
               /\ pc' = "loop"
               /\ UNCHANGED raised
          ELSE /\ raised' = e.raised
               /\ pc' = "raised"
               /\ UNCHANGED <<norb, constant, one_body_tensor, two_body_tensor,
                              seen_2b, pending>>
    /\ UNCHANGED <<self, op, ret, diag, args, held>>

\* one iteration of the loop, on any term not yet reached: the iteration
\* order of the operator's terms is not fixed
LoopIteration ==
    /\ pc = "loop"
    /\ \E term \in pending :
         LET st == LoopBody(Locals(constant, one_body_tensor, two_body_tensor,
                                   seen_2b, raised), term, op[term])
         IN /\ constant' = st.constant
            /\ one_body_tensor' = st.one_body_tensor
            /\ two_body_tensor' = st.two_body_tensor
            /\ seen_2b' = st.seen_2b
            /\ raised' = st.raised
            /\ pending' = pending \ {term}
            /\ pc' = IF st.raised = NoException THEN "loop" ELSE "raised"
    /\ UNCHANGED <<self, op, norb, ret, diag, args, held>>

\* the loop is over: return the record
FromFermionOperatorReturn ==
    /\ pc = "loop"
    /\ pending = {}
    /\ ret' = ReturnRecord(one_body_tensor, two_body_tensor, constant)
    /\ pc' = "returned"
    /\ UNCHANGED <<self, op, pending, norb, constant, one_body_tensor,
                   two_body_tensor, seen_2b, raised, diag, args, held>>

----------------------------------------------------------------------------
(* _diag_                                                                  *)

\* occupation lists of n electrons in norb orbitals
Occslst(n, nel) == {S \in SUBSET Orbs(n) : Cardinality(S) = nel}

\* pyscf.fci make_hdiag: for each determinant, the one-body diagonal of the
\* occupied orbitals plus half the Coulomb (iijj) minus exchange (ijji) sums
make_hdiag(h1e, eri, n, nelec) ==
    LET jdiag(i, j) == eri.data[<<i, i, j, j>>].re
        kdiag(i, j) == eri.data[<<i, j, j, i>>].re
        e1(A, B) == ISum([i \in Orbs(n) |-> h1e.data[<<i, i>>].re], A)
                    + ISum([i \in Orbs(n) |-> h1e.data[<<i, i>>].re], B)
        same(A) == ISum([x \in A \X A |-> jdiag(x[1], x[2]) - kdiag(x[1], x[2])],
                        A \X A)
        cross(A, B) == ISum([x \in A \X B |-> 2 * jdiag(x[1], x[2])], A \X B)
    IN [d \in Occslst(n, nelec[1]) \X Occslst(n, nelec[2]) |->
           e1(d[1], d[2]) + ((same(d[1]) + cross(d[1], d[2]) + same(d[2])) \div 2)]

\* Diag that tests the values of the tensors for an imaginary part, not
\* their element type
DiagByValues(h, n, nelec) ==
    IF \/ \E i \in DOMAIN h.two_body_tensor.data : h.two_body_tensor.data[i].im # 0
       \/ \E i \in DOMAIN h.one_body_tensor.data : h.one_body_tensor.data[i].im # 0
    THEN [raised |-> Exception("NotImplementedError", "complex", <<>>),
          value |-> NoDiag]
    ELSE [raised |-> NoException,
          value |-> LET hdiag == make_hdiag(h.one_body_tensor, h.two_body_tensor,
                                            n, nelec)
                    IN [d \in DOMAIN hdiag |-> hdiag[d] + h.constant]]

\* h._diag_(norb, nelec): the exception raised, or the vector returned
Diag(h, n, nelec) ==
    IF iscomplexobj(h.two_body_tensor) \/ iscomplexobj(h.one_body_tensor)
    THEN [raised |-> Exception("NotImplementedError", "complex", <<>>),
          value |-> NoDiag]
    ELSE [raised |-> NoException,
          value |-> LET hdiag == make_hdiag(h.one_body_tensor, h.two_body_tensor,
                                            n, nelec)
                    IN [d \in DOMAIN hdiag |-> hdiag[d] + h.constant]]

\* electron counts the diagonal is asked for
Nelecs == {<<1, 0>>, <<1, 1>>}

\* _diag_ called on the record from_fermion_operator returned
DiagOfReturned ==
    /\ pc = "returned"
    /\ \E nelec \in Nelecs :
         LET r == Diag(ret, Norb(ret), nelec)
         IN /\ args' = [norb |-> Norb(ret), nelec |-> nelec]
            /\ raised' = r.raised
            /\ diag' = r.value
            /\ pc' = IF r.raised = NoException THEN "diag_returned" ELSE "diag_raised"
    /\ UNCHANGED <<self, op, pending, norb, constant, one_body_tensor,
                   two_body_tensor, seen_2b, ret, held>>

----------------------------------------------------------------------------
(* The operators handed to from_fermion_operator.                          *)

\* the largest orbital index
Top == MaxNorb - 1

\* a^dagger_{s1,p} a^dagger_{s2,r} a_{s2,s} a_{s1,q}
TwoBodyKey(s1, s2, p, q, r, s) ==
    <<<<TRUE, s1, p>>, <<TRUE, s2, r>>, <<FALSE, s2, s>>, <<FALSE, s1, q>>>>

\* two-body terms on offer: one orbital quadruple in all four spin
\* combinations, and members of its orbit and of two other orbits
ValidTwoBodyTerms ==
    {TwoBodyKey(s1, s2, 0, Top, 0, Top) : s1 \in BOOLEAN, s2 \in BOOLEAN}
    \cup {TwoBodyKey(FALSE, FALSE, Top, 0, 0, Top),
          TwoBodyKey(FALSE, FALSE, 0, 0, Top, Top),
          TwoBodyKey(FALSE, TRUE, 0, 0, 0, Top)}

InvalidTwoBodyTerms ==
    {<<cre_a(0), cre_a(Top), des_b(Top), des_b(0)>>,
     <<cre_a(0), des_a(0), cre_a(Top), des_a(Top)>>}

ValidOneBodyTerms ==
    {<<cre_a(0), des_a(Top)>>, <<cre_b(0), des_b(Top)>>}

InvalidOneBodyTerms ==
    {<<cre_a(0), des_b(Top)>>, <<des_a(0), cre_a(Top)>>}

OtherLengthTerms ==
    {<<cre_a(Top)>>,
     <<cre_a(0), cre_a(Top), des_a(0)>>,
     <<cre_a(0), cre_a(Top), des_a(Top), des_a(0), cre_b(0)>>}

Universe ==
    {<<>>} \cup ValidOneBodyTerms \cup InvalidOneBodyTerms \cup ValidTwoBodyTerms
    \cup InvalidTwoBodyTerms \cup OtherLengthTerms

RECURSIVE TermSets(_)
\* the sets of at most k terms
TermSets(k) ==
    IF k = 0 THEN {{}}
    ELSE LET T == TermSets(k - 1) IN T \cup {S \cup {t} : S \in T, t \in Universe}

RealCoeffs == {Cx(2 * c, 0) : c \in 1 .. MaxCoeff}
\* terms that may also carry a coefficient with an imaginary part: the
\* constant term, a one-body term and a two-body term
ComplexCoeffTerms ==
    {<<>>, <<cre_a(0), des_a(Top)>>, TwoBodyKey(FALSE, FALSE, 0, Top, 0, Top)}
CoeffsOf(term) ==
    IF term \in ComplexCoeffTerms THEN RealCoeffs \cup {Cx(2, 2)} ELSE RealCoeffs

Operators ==
    UNION {{o \in [S -> RealCoeffs \cup {Cx(2, 2)}] :
               \A t \in S : o[t] \in CoeffsOf(t)} : S \in TermSets(MaxTerms)}

Init ==
    /\ pc = "call_from_fermion_operator"
    /\ op \in Operators
    /\ self = NoRecord
    /\ pending = NoValue
    /\ norb = NoValue
    /\ constant = NoValue
    /\ one_body_tensor = NoValue
    /\ two_body_tensor = NoValue
    /\ seen_2b = NoValue
    /\ raised = NoException
    /\ ret = NoRecord
    /\ diag = NoDiag
    /\ args = NoArgs
    /\ held = <<>>

Next ==
    \/ FromFermionOperatorStart
    \/ LoopIteration
    \/ FromFermionOperatorReturn
    \/ DiagOfReturned

Spec == Init /\ [][Next]_vars

----------------------------------------------------------------------------
(* _fermion_operator_ and the whole call of from_fermion_operator.         *)

\* OneBodyCoeff with the factor 0.5 of the two-body coefficient
OneBodyCoeffHalved(h, p, q) == Half(h.one_body_tensor.data[<<p, q>>])

\* coeff = self.one_body_tensor[p, q]
OneBodyCoeff(h, p, q) == h.one_body_tensor.data[<<p, q>>]

\* coeff = 0.5 * self.two_body_tensor[p, q, r, s]
TwoBodyCoeff(h, p, q, r, s) == Half(h.two_body_tensor.data[<<p, q, r, s>>])

\* the terms of h._fermion_operator_().  Every key is added by one index
\* tuple only, so that "op +=" never adds two coefficients; the orbitals of
\* a key are read back from its actions.
FermionOperatorOf(h) ==
    LET n == Norb(h)
        one == {<<<<TRUE, sp, i[1]>>, <<FALSE, sp, i[2]>>>> :
                    sp \in BOOLEAN, i \in Idx2(n)}
        two == {TwoBodyKey(s1, s2, k[1], k[2], k[3], k[4]) :
                    s1 \in BOOLEAN, s2 \in BOOLEAN, k \in Idx4(n)}
    IN [term \in {<<>>} \cup one \cup two |->
           IF Len(term) = 0 THEN Cx(h.constant, 0)
           ELSE IF Len(term) = 2 THEN OneBodyCoeff(h, term[1][3], term[2][3])
           ELSE TwoBodyCoeff(h, term[1][3], term[4][3], term[2][3], term[3][3])]

\* the keys in the order _fermion_operator_ adds them: the constant, the
\* one-body keys of itertools.product(range(norb), repeat=2), the two-body
\* keys of itertools.product(range(norb), repeat=4)
InsertionOrder(n) ==
    LET n1 == 2 * n * n
        n2 == 4 * n * n * n * n
        oneKey(j) ==
            LET i == j \div 2
            IN <<<<TRUE, j % 2 = 1, i \div n>>, <<FALSE, j % 2 = 1, i % n>>>>
        twoKey(j) ==
            LET i == j \div 4
                v == j % 4
            IN TwoBodyKey(v \div 2 = 1, v % 2 = 1, i \div (n * n * n),
                          (i \div (n * n)) % n, (i \div n) % n, i % n)
    IN [j \in 1 .. (1 + n1 + n2) |->
           IF j = 1 THEN <<>>
           ELSE IF j <= 1 + n1 THEN oneKey(j - 2)
           ELSE twoKey(j - 2 - n1)]

Reverse(seq) == [j \in 1 .. Len(seq) |-> seq[Len(seq) + 1 - j]]

RECURSIVE Loop(_, _, _, _, _)
\* the loop over op.items() in the given order, on its terms lo..hi (the
\* first half, then the second half); an exception ends it
Loop(st, o, order, lo, hi) ==
    IF lo > hi \/ st.raised # NoException THEN st
    ELSE IF lo = hi THEN LoopBody(st, order[lo], o[order[lo]])
    ELSE LET mid == (lo + hi) \div 2
             first == Loop(st, o, order, lo, mid)
         IN Loop(first, o, order, mid + 1, hi)

\* from_fermion_operator(o) with the terms iterated in the given order: the
\* exception raised, or the record returned
from_fermion_operator(o, order) ==
    LET e == ExtractNorb(o)
    IN IF ~e.ok THEN [raised |-> e.raised, ret |-> NoRecord]
       ELSE LET st == Loop(Locals(0, Zeros2(e.norb), Zeros4(e.norb), {},
                                  NoException), o, order, 1, Len(order))
            IN IF st.raised # NoException
               THEN [raised |-> st.raised, ret |-> NoRecord]
               ELSE [raised |-> NoException,
                     ret |-> ReturnRecord(st.one_body_tensor, st.two_body_tensor,
                                          st.constant)]

\* the eight index permutations of a quadruple
Orbit(k) ==
    {<<k[1], k[2], k[3], k[4]>>, <<k[2], k[1], k[3], k[4]>>,
     <<k[1], k[2], k[4], k[3]>>, <<k[2], k[1], k[4], k[3]>>,
     <<k[3], k[4], k[1], k[2]>>, <<k[4], k[3], k[1], k[2]>>,
     <<k[3], k[4], k[2], k[1]>>, <<k[4], k[3], k[2], k[1]>>}

\* position of a quadruple in itertools.product(range(n), repeat=4)
Code(n, k) == ((k[1] * n + k[2]) * n + k[3]) * n + k[4]

\* the first quadruple of the orbit of k
Rep(n, k) == CHOOSE x \in Orbit(k) : \A y \in Orbit(k) : Code(n, x) <= Code(n, y)

RealArray(n, f) == Array("float64", n, [i \in DOMAIN f |-> Cx(f[i], 0)])

\* real one-body tensors: zero, one entry set, and all entries different
OneBodies(n) ==
    {RealArray(n, [i \in Idx2(n) |-> 0])}
    \cup {RealArray(n, [i \in Idx2(n) |-> IF i = e THEN 2 ELSE 0]) : e \in Idx2(n)}
    \cup {RealArray(n, [i \in Idx2(n) |-> 2 * (1 + i[1] * n + i[2])])}

\* real 8-fold symmetric two-body tensors: zero, one orbit set, and all
\* orbits different
TwoBodies(n) ==
    {RealArray(n, [k \in Idx4(n) |-> 0])}
    \cup {RealArray(n, [k \in Idx4(n) |-> IF k \in Orbit(e) THEN 2 ELSE 0]) :
             e \in Idx4(n)}
    \cup {RealArray(n, [k \in Idx4(n) |-> 2 * (1 + Code(n, Rep(n, k)))])}

Records ==
    UNION {{MolecularHamiltonian(h1, h2, c) :
               h1 \in OneBodies(n), h2 \in TwoBodies(n), c \in {0, 3}} :
           n \in 0 .. MaxNorb}

InitCodec ==
    /\ pc = "call__fermion_operator_"
    /\ self \in Records
    /\ op = NoOp
    /\ pending = NoValue
    /\ norb = NoValue
    /\ constant = NoValue
    /\ one_body_tensor = NoValue
    /\ two_body_tensor = NoValue
    /\ seen_2b = NoValue
    /\ raised = NoException
    /\ ret = NoRecord
    /\ diag = NoDiag
    /\ args = NoArgs
    /\ held = <<>>

\* op = self._fermion_operator_()
FermionOperatorCall ==
    /\ pc = "call__fermion_operator_"
    /\ op' = FermionOperatorOf(self)
    /\ pc' = "encoded"
    /\ UNCHANGED <<self, pending, norb, constant, one_body_tensor,
                   two_body_tensor, seen_2b, raised, ret, diag, args, held>>

\* MolecularHamiltonian.from_fermion_operator(op), the terms iterated in the
\* order they were added or in the opposite order; args keeps the last term
\* of the order taken
FromFermionOperatorCall ==
    /\ pc = "encoded"
    /\ \E order \in {InsertionOrder(Norb(self)), Reverse(InsertionOrder(Norb(self)))} :
         LET r == from_fermion_operator(op, order)
         IN /\ args' = [last |-> order[Len(order)]]
            /\ raised' = r.raised
            /\ ret' = r.ret
            /\ pc' = IF r.raised = NoException THEN "returned" ELSE "raised"
    /\ UNCHANGED <<self, op, pending, norb, constant, one_body_tensor,
                   two_body_tensor, seen_2b, diag, held>>

NextCodec ==
    \/ FermionOperatorCall
    \/ FromFermionOperatorCall

SpecCodec == InitCodec /\ [][NextCodec]_vars

----------------------------------------------------------------------------
(* _diag_ on a record of either element type (SpecDiag).                   *)

\* the array with another element type; a complex array may hold an
\* imaginary part
Retyped(a, dtype, im) ==
    Array(dtype, a.n, [i \in DOMAIN a.data |-> Cx(a.data[i].re, im)])

\* records with real and with complex arrays; the complex arrays hold real
\* values or values with an imaginary part
DiagRecords ==
    UNION {{MolecularHamiltonian(h1, h2, h.constant) :
               h1 \in {h.one_body_tensor,
                       Retyped(h.one_body_tensor, "complex128", 0),
                       Retyped(h.one_body_tensor, "complex128", 2)},
               h2 \in {h.two_body_tensor,
                       Retyped(h.two_body_tensor, "complex128", 0),
                       Retyped(h.two_body_tensor, "complex128", 2)}} :
           h \in Records}

InitDiag ==
    /\ pc = "call__diag_"
    /\ self \in DiagRecords
    /\ op = NoOp
    /\ pending = NoValue
    /\ norb = NoValue
    /\ constant = NoValue
    /\ one_body_tensor = NoValue
    /\ two_body_tensor = NoValue
    /\ seen_2b = NoValue
    /\ raised = NoException
    /\ ret = NoRecord
    /\ diag = NoDiag
    /\ args = NoArgs
    /\ held = <<>>

\* self._diag_(norb, nelec)
DiagCall ==
    /\ pc = "call__diag_"
    /\ \E nelec \in Nelecs :
         LET r == Diag(self, Norb(self), nelec)
         IN /\ args' = [norb |-> Norb(self), nelec |-> nelec]
            /\ raised' = r.raised
            /\ diag' = r.value
            /\ pc' = IF r.raised = NoException THEN "diag_returned" ELSE "diag_raised"
    /\ UNCHANGED <<self, op, pending, norb, constant, one_body_tensor,
                   two_body_tensor, seen_2b, ret, held>>

NextDiag == DiagCall

SpecDiag == InitDiag /\ [][NextDiag]_vars

----------------------------------------------------------------------------
(* rotated (SpecRot).                                                      *)

\* "ab,Aa,Bb->AB" with a slip in the last operand's indices: "ab,Aa,bB->AB"
OneBodyRotatedSlip(h1, U) ==
    Array("complex128", h1.n,
          [X \in Idx2(h1.n) |->
              CSum([x \in Idx2(h1.n) |->
                       CMul(h1.data[x],
                            CMul(U.data[<<X[1], x[1]>>],
                                 Conj(U.data[<<x[2], X[2]>>])))],
                   Idx2(h1.n))])

\* contract("ab,Aa,Bb->AB", one_body_tensor, U, U.conj())
OneBodyRotated(h1, U) ==
    Array("complex128", h1.n,
          [X \in Idx2(h1.n) |->
              CSum([x \in Idx2(h1.n) |->
                       CMul(h1.data[x],
                            CMul(U.data[<<X[1], x[1]>>],
                                 Conj(U.data[<<X[2], x[2]>>])))],
                   Idx2(h1.n))])

\* the k-th index of a quadruple replaced
With(q, k, v) == [q EXCEPT ![k] = v]

\* one axis of a rank-4 tensor contracted with a matrix: the pairwise
\* contraction out[..X..] = sum_x t[..x..] * M[X,x] on axis k
ContractAxis(t, n, k, M) ==
    [q \in Idx4(n) |->
        CSum([x \in Orbs(n) |-> CMul(t[With(q, k, x)], M[<<q[k], x>>])], Orbs(n))]

\* contract("abcd,Aa,Bb,Cc,Dd->ABCD", two_body_tensor, U, U.conj(), U,
\* U.conj()), one pair of operands at a time
TwoBodyRotated(h2, U) ==
    LET n == h2.n
        Uc == [i \in DOMAIN U.data |-> Conj(U.data[i])]
        t1 == ContractAxis(h2.data, n, 1, U.data)
        t2 == ContractAxis(t1, n, 2, Uc)
        t3 == ContractAxis(t2, n, 3, U.data)
    IN Array("complex128", n, ContractAxis(t3, n, 4, Uc))

\* h.rotated(orbital_rotation)
Rotated(h, U) ==
    MolecularHamiltonian(OneBodyRotated(h.one_body_tensor, U),
                         TwoBodyRotated(h.two_body_tensor, U), h.constant)

\* the matrix product U2 @ U1, computed by the caller
MatMul(U2, U1) ==
    Array("complex128", U1.n,
          [X \in Idx2(U1.n) |->
              CSum([x \in Orbs(U1.n) |->
                       CMul(U2.data[<<X[1], x>>], U1.data[<<x, X[2]>>])],
                   Orbs(U1.n))])

\* i^k
Phase(k) ==
    IF k % 4 = 0 THEN Cx(1, 0)
    ELSE IF k % 4 = 1 THEN Cx(0, 1)
    ELSE IF k % 4 = 2 THEN Cx(-1, 0)
    ELSE Cx(0, -1)

\* orbital rotations: unitary matrices with one phase in each row (the
\* cyclic shifts of the orbitals, with phases), and shears (the identity plus
\* one phase next to the diagonal), which are not unitary
Rotations(n) ==
    {Array("complex128", n,
           [X \in Idx2(n) |-> IF X[2] = (X[1] + sh) % n THEN Phase(k + X[1])
                              ELSE CZero]) :
        sh \in Orbs(n), k \in 0 .. MaxPhase}
    \cup {Array("complex128", n,
                [X \in Idx2(n) |-> IF X[1] = X[2] THEN Cx(1, 0)
                                   ELSE IF X = <<a, (a + 1) % n>> THEN Phase(k)
                                   ELSE CZero]) :
             a \in Orbs(n), k \in 0 .. MaxPhase}

\* records to rotate: real with an 8-fold symmetric two-body tensor, and
\* complex with no symmetry and all entries different
RotRecords(n) ==
    {MolecularHamiltonian(
         RealArray(n, [i \in Idx2(n) |-> 2 * (1 + i[1] * n + i[2])]),
         RealArray(n, [k \in Idx4(n) |-> 2 * (1 + Code(n, Rep(n, k)))]), 3),
     MolecularHamiltonian(
         Array("complex128", n, [i \in Idx2(n) |-> Cx(1 + i[1], i[2] - i[1])]),
         Array("complex128", n, [k \in Idx4(n) |-> Cx(Code(n, k), k[2] - k[3])]),
         1)}

InitRot ==
    /\ pc = "call_rotated"
    /\ \E n \in 1 .. MaxNorb :
         /\ self \in RotRecords(n)
         /\ args \in [U1 : Rotations(n), U2 : Rotations(n)]
    /\ op = NoOp
    /\ pending = NoValue
    /\ norb = NoValue
    /\ constant = NoValue
    /\ one_body_tensor = NoValue
    /\ two_body_tensor = NoValue
    /\ seen_2b = NoValue
    /\ raised = NoException
    /\ ret = NoRecord
    /\ diag = NoDiag
    /\ held = <<>>

\* a = self.rotated(U1)
RotatedFirst ==
    /\ pc = "call_rotated"
    /\ ret' = Rotated(self, args.U1)
    /\ pc' = "rotated_first"
    /\ UNCHANGED <<self, op, pending, norb, constant, one_body_tensor,
                   two_body_tensor, seen_2b, raised, diag, args, held>>

\* b = a.rotated(U2)
RotatedSecond ==
    /\ pc = "rotated_first"
    /\ held' = Append(held, ret)
    /\ ret' = Rotated(ret, args.U2)
    /\ pc' = "rotated_second"
    /\ UNCHANGED <<self, op, pending, norb, constant, one_body_tensor,
                   two_body_tensor, seen_2b, raised, diag, args>>

\* c = self.rotated(U2 @ U1)
RotatedProduct ==
    /\ pc = "rotated_second"
    /\ held' = Append(held, ret)
    /\ ret' = Rotated(self, MatMul(args.U2, args.U1))
    /\ pc' = "rotated_product"
    /\ UNCHANGED <<self, op, pending, norb, constant, one_body_tensor,
                   two_body_tensor, seen_2b, raised, diag, args>>

NextRot ==
    \/ RotatedFirst
    \/ RotatedSecond
    \/ RotatedProduct

SpecRot == InitRot /\ [][NextRot]_vars

----------------------------------------------------------------------------
(* Properties of from_fermion_operator on any operator (Spec).             *)

\* the terms the loop has reached
LoopEntered ==
    /\ pc # "call_from_fermion_operator"
    /\ ~(pc = "raised" /\ raised.kind = "max_empty")
Reached == IF LoopEntered THEN DOMAIN op \ pending ELSE {}

\* the key (p,q,r,s) of a 4-action term
KeyOf(term) == <<term[1][3], term[4][3], term[2][3], term[3][3]>>

\* create(spin,p), annihilate(spin,q)
OneBodyShape(term) ==
    /\ term[1][1] /\ ~term[2][1]
    /\ term[1][2] = term[2][2]

\* create(s1,p), create(s2,r), annihilate(s2,s), annihilate(s1,q)
TwoBodyShape(term) ==
    /\ term[1][1] /\ term[2][1] /\ ~term[3][1] /\ ~term[4][1]
    /\ term[3][2] = term[2][2]
    /\ term[4][2] = term[1][2]

BadShape(term) ==
    \/ Len(term) = 2 /\ ~OneBodyShape(term)
    \/ Len(term) = 4 /\ ~TwoBodyShape(term)

OtherLength(term) == Len(term) \notin {0, 2, 4}

Returned == pc \in {"returned", "diag_returned", "diag_raised"}

\* C2: the two-body tensor of the returned record is equal on the eight
\* index permutations of every quadruple (p,q,r,s), populated or not.
C2_TwoBodySymmetric ==
    Returned =>
        \A k \in DOMAIN ret.two_body_tensor.data :
            LET T == ret.two_body_tensor.data
                p == k[1]
                q == k[2]
                r == k[3]
                s == k[4]
            IN /\ T[<<p, q, r, s>>] = T[<<q, p, r, s>>]
               /\ T[<<p, q, r, s>>] = T[<<p, q, s, r>>]
               /\ T[<<p, q, r, s>>] = T[<<q, p, s, r>>]
               /\ T[<<p, q, r, s>>] = T[<<r, s, p, q>>]
               /\ T[<<p, q, r, s>>] = T[<<s, r, p, q>>]
               /\ T[<<p, q, r, s>>] = T[<<r, s, q, p>>]
               /\ T[<<p, q, r, s>>] = T[<<s, r, q, p>>]

\* a record was returned from two two-body terms of one orbit, with
\* different keys and different coefficients
C2_Witness ==
    /\ pc = "returned"
    /\ \E t, u \in DOMAIN op :
         /\ Len(t) = 4 /\ Len(u) = 4
         /\ KeyOf(t) # KeyOf(u)
         /\ KeyOf(u) = <<KeyOf(t)[2], KeyOf(t)[1], KeyOf(t)[3], KeyOf(t)[4]>>
         /\ op[t] # op[u]
         /\ ret.two_body_tensor.data[KeyOf(t)] # CZero

\* C4: an operator with a 2-action or 4-action term of the wrong shape never
\* yields a record: the loop cannot run out of terms, and the exception that
\* ends the call is a ValueError.
C4_BadShapeRaises ==
    (\E t \in DOMAIN op : BadShape(t)) =>
        /\ ~Returned
        /\ ret = NoRecord
        /\ pc = "loop" => \E t \in pending : BadShape(t)
        /\ pc = "raised" => raised.type = "ValueError"
        /\ \A t \in Reached : BadShape(t) => pc = "raised"

\* a two-body term with a mismatched spin pattern raised after another term
\* had been processed
C4_Witness ==
    /\ pc = "raised"
    /\ raised.kind = "two_body"
    /\ raised.term = <<cre_a(0), cre_a(Top), des_b(Top), des_b(0)>>
    /\ Cardinality(Reached) = 2

\* C5 as stated: whenever the operator holds a term of a length other than
\* 0, 2 or 4, the exception that ends the call names such a term as neither a
\* constant, one-body nor two-body term.
C5_Original ==
    (pc = "raised" /\ \E t \in DOMAIN op : OtherLength(t)) =>
        /\ raised.kind = "length"
        /\ OtherLength(raised.term)

\* C5 amended: an operator with a term of a length other than 0, 2 or 4 never
\* yields a record and the call ends in a ValueError; the iteration that
\* reaches that term raises the error naming that term, unless an earlier
\* iteration raised the validation error of another term.
C5_OtherLengthRaises ==
    (\E t \in DOMAIN op : OtherLength(t)) =>
        /\ ~Returned
        /\ ret = NoRecord
        /\ pc = "loop" => \E t \in pending : OtherLength(t)
        /\ pc = "raised" => raised.type = "ValueError"
        /\ \A t \in Reached : OtherLength(t) =>
              /\ pc = "raised"
              /\ raised = Exception("ValueError", "length", t)

\* a 3-action term raised after another term had been processed
C5_Witness ==
    /\ pc = "raised"
    /\ raised.kind = "length"
    /\ Len(raised.term) = 3
    /\ Cardinality(Reached) = 2

\* C8 as stated: an iteration on a valid 4-action term whose key (p,q,r,s) is
\* the key of a term reached before leaves the two-body tensor unchanged.
C8_FirstSeenOnly ==
    [][\A t \in DOMAIN op :
          (/\ pc = "loop" /\ pc' = "loop"
           /\ t \in pending /\ t \notin pending'
           /\ Len(t) = 4
           /\ \E u \in Reached : Len(u) = 4 /\ KeyOf(u) = KeyOf(t))
          => two_body_tensor' = two_body_tensor]_vars

\* C9: a record is returned only from an operator with an action; on an
\* operator without one the call raises before it allocates a tensor or
\* reaches a term.
C9_NoActionRaises ==
    /\ Returned => \E t \in DOMAIN op : Len(t) > 0
    /\ (\A t \in DOMAIN op : Len(t) = 0) =>
          /\ pc \in {"call_from_fermion_operator", "raised"}
          /\ ret = NoRecord
          /\ Reached = {}
          /\ one_body_tensor = NoValue /\ two_body_tensor = NoValue
          /\ constant = NoValue
          /\ pc = "raised" => raised = Exception("ValueError", "max_empty", <<>>)

\* the call on the operator that holds the constant term alone has raised
C9_Witness ==
    /\ pc = "raised"
    /\ DOMAIN op = {<<>>}
    /\ op[<<>>].im = 0

\* C10: the tensors of a returned record are of complex element type, and
\* _diag_ on a returned record raises NotImplementedError.
C10_DiagOfDecodedRaises ==
    /\ Returned =>
          /\ ret.one_body_tensor.dtype = "complex128"
          /\ ret.two_body_tensor.dtype = "complex128"
    /\ pc # "diag_returned"
    /\ pc = "diag_raised" =>
          /\ raised = Exception("NotImplementedError", "complex", <<>>)
          /\ diag = NoDiag

\* _diag_ raised on a record decoded from real coefficients
C10_Witness ==
    /\ pc = "diag_raised"
    /\ \A t \in DOMAIN op : op[t].im = 0
    /\ \A i \in DOMAIN ret.two_body_tensor.data : ret.two_body_tensor.data[i].im = 0
    /\ \A i \in DOMAIN ret.one_body_tensor.data : ret.one_body_tensor.data[i].im = 0
    /\ \E i \in DOMAIN ret.two_body_tensor.data : ret.two_body_tensor.data[i].re # 0

----------------------------------------------------------------------------
(* Properties of the conversion of a record to an operator and back        *)
(* (SpecCodec).                                                            *)

\* the values of two arrays are equal entry by entry
SameValues(a, b) ==
    /\ a.n = b.n
    /\ DOMAIN a.data = DOMAIN b.data
    /\ \A i \in DOMAIN a.data : a.data[i] = b.data[i]

RoundTripped ==
    /\ pc = "returned"
    /\ ret.constant = self.constant
    /\ SameValues(ret.one_body_tensor, self.one_body_tensor)
    /\ SameValues(ret.two_body_tensor, self.two_body_tensor)

\* C1 as stated: the conversion of the operator of any record with real
\* tensors, a real constant and an 8-fold symmetric two-body tensor returns
\* a record with the constant and the tensors of that record.
C1_RoundTrip ==
    pc \in {"returned", "raised"} => RoundTripped

\* the round trip of every such record with at least one orbital
RoundTripFromOneOrbital ==
    (pc \in {"returned", "raised"} /\ Norb(self) >= 1) => RoundTripped

\* the iteration order visits every key of the operator once
OrderIsOfOperator ==
    pc = "encoded" =>
        LET order == InsertionOrder(Norb(self))
        IN /\ {order[j] : j \in DOMAIN order} = DOMAIN op
           /\ Len(order) = Cardinality(DOMAIN op)

\* the record of the example: norb = 1, one_body_tensor = [[2.0]], a zero
\* two_body_tensor, constant = 0.0
ExampleRecord ==
    MolecularHamiltonian(RealArray(1, [i \in Idx2(1) |-> 2]),
                         RealArray(1, [k \in Idx4(1) |-> 0]), 0)

\* C3 as stated: the operator of the example record has exactly two one-body
\* terms, alpha and beta on orbital 0, each with coefficient 1.0, and its
\* two-body terms all have coefficient zero.
C3_Original ==
    (pc = "encoded" /\ self = ExampleRecord) =>
        /\ {t \in DOMAIN op : Len(t) = 2} =
              {<<cre_a(0), des_a(0)>>, <<cre_b(0), des_b(0)>>}
        /\ \A t \in DOMAIN op : Len(t) = 2 => op[t] = Cx(1, 0)
        /\ \A t \in DOMAIN op : Len(t) = 4 => op[t] = CZero

\* C3 amended: the operator of the example record has exactly two one-body
\* terms, alpha and beta on orbital 0, each with coefficient 2.0, the entry
\* of the one-body tensor; its two-body terms all have coefficient zero.
C3_Example ==
    (pc = "encoded" /\ self = ExampleRecord) =>
        /\ {t \in DOMAIN op : Len(t) = 2} =
              {<<cre_a(0), des_a(0)>>, <<cre_b(0), des_b(0)>>}
        /\ \A t \in DOMAIN op : Len(t) = 2 => op[t] = Cx(2, 0)
        /\ \A t \in DOMAIN op : Len(t) = 4 => op[t] = CZero

\* the operator of the example record has been built
C3_Witness ==
    /\ pc = "encoded"
    /\ self = ExampleRecord
    /\ Cardinality(DOMAIN op) = 7

----------------------------------------------------------------------------
(* Properties of _diag_ (SpecDiag).                                        *)

HoldsNonReal(a) == \E i \in DOMAIN a.data : a.data[i].im # 0

\* make_hdiag of the tensors of self as they are, the constant added to
\* every entry
ExpectedDiag ==
    LET hdiag == make_hdiag(self.one_body_tensor, self.two_body_tensor,
                            args.norb, args.nelec)
    IN [d \in DOMAIN hdiag |-> hdiag[d] + self.constant]

DiagRaised ==
    /\ pc = "diag_raised"
    /\ raised = Exception("NotImplementedError", "complex", <<>>)
    /\ diag = NoDiag

DiagReturned ==
    /\ pc = "diag_returned"
    /\ raised = NoException
    /\ diag = ExpectedDiag

\* C6 as stated: _diag_ raises NotImplementedError if a tensor holds a value
\* that is not real, and returns make_hdiag plus the constant whenever all
\* entries of both tensors are real-valued.
C6_Original ==
    pc \in {"diag_raised", "diag_returned"} =>
        IF HoldsNonReal(self.one_body_tensor) \/ HoldsNonReal(self.two_body_tensor)
        THEN DiagRaised
        ELSE DiagReturned

\* C6 amended: _diag_ raises NotImplementedError if a tensor is of complex
\* element type, whatever its values, and returns make_hdiag plus the
\* constant whenever both tensors are of real element type.
C6_DiagByElementType ==
    pc \in {"diag_raised", "diag_returned"} =>
        IF \/ self.one_body_tensor.dtype = "complex128"
           \/ self.two_body_tensor.dtype = "complex128"
        THEN DiagRaised
        ELSE DiagReturned

\* _diag_ raised on a record with a complex array whose values are all real
C6_Witness ==
    /\ pc = "diag_raised"
    /\ self.two_body_tensor.dtype = "complex128"
    /\ self.one_body_tensor.dtype = "float64"
    /\ ~HoldsNonReal(self.two_body_tensor)
    /\ \E i \in DOMAIN self.two_body_tensor.data : self.two_body_tensor.data[i].re # 0

\* _diag_ returned the diagonal of a record with real arrays, a constant
\* and one and two electrons
DiagReturnedWitness ==
    /\ pc = "diag_returned"
    /\ self.constant # 0
    /\ args.nelec = <<1, 1>>
    /\ \E d \in DOMAIN diag : diag[d] # self.constant

----------------------------------------------------------------------------
(* Properties of rotated (SpecRot).                                        *)

\* C7: the record rotated by U1 and then by U2 has the constant and the
\* tensors of the record rotated by U2 @ U1; the constant is that of the
\* record the calls were made on.
C7_RotationComposes ==
    pc = "rotated_product" =>
        /\ held[2].constant = ret.constant
        /\ SameValues(held[2].one_body_tensor, ret.one_body_tensor)
        /\ SameValues(held[2].two_body_tensor, ret.two_body_tensor)
        /\ ret.constant = self.constant

\* two rotations that do not commute were applied to a record with two
\* orbitals, and the result is not the record
C7_Witness ==
    /\ pc = "rotated_product"
    /\ Norb(self) = 2
    /\ MatMul(args.U2, args.U1) # MatMul(args.U1, args.U2)
    /\ ~SameValues(ret.two_body_tensor, self.two_body_tensor)
    /\ ~SameValues(held[1].one_body_tensor, ret.one_body_tensor)

====
